---- MODULE Spec2Model ----
(***************************************************************************)
(* Retrieval pipeline and vector index of the RAG system.                  *)
(*                                                                         *)
(*   Spec      the FAISSService object in memory, driven by              *)
(*             create_index / add_vectors / search calls                   *)
(*   SpecDisk  the same object with its two files on disk, driven by       *)
(*             add_vectors / save_index / load_index / reset_index calls   *)
(*             and by process restarts                                     *)
(*   SpecLoop  the request coroutines of the FastAPI application on the    *)
(*             single event-loop thread, at the grain of the statements    *)
(*             of add_vectors, search and save_index                       *)
(*   SpecDoc   POST /documents/upload: upload_document and                 *)
(*             IndexingAgent.index_document with their failure paths       *)
(*   SpecQA    POST /ask: ask_question and QAAgent.answer_question with    *)
(*             their failure paths, over documents uploaded and resets     *)
(*   SpecContext  QAAgent.construct_context applied to lists of chunks     *)
(*   SpecChunk    chunk_text applied to short texts                        *)
(*   SpecOverlap  the same under overlap >= chunk_size                     *)
(*   SpecScenario chunk_text under the settings, on 1200-character texts   *)
(*   SpecNormalize  IngestionAgent.clean_extracted_text applied to raw     *)
(*             texts and again to what it returned                         *)
(*   SpecUpload   SpecDoc restricted to uploads                            *)
(*                                                                         *)
(* Sequences are 1-based here and 0-based in the source: position p of the *)
(* model is FAISS label p - 1.                                             *)
(***************************************************************************)
EXTENDS Integers, Sequences, FiniteSets, TLC

VARIABLES
    index,          \* FAISSService.index: the stored float32 vectors, in insertion order
    metadata,       \* FAISSService.metadata: chunk ids, meant to parallel index
    index_path,     \* contents of document_index.faiss
    metadata_path,   \* contents of document_metadata.pkl
    last,           \* the last call made on the service and how it ended
    documents,      \* table documents: document_id -> status ("none": no row)
    document_chunks,\* table document_chunks: the chunk records
    reply,          \* the last upload or index_document call and what it returned
    pc,             \* where each request in flight stands in its handler
    running,        \* the requests whose handler holds a thread
    work,           \* the locals of each request in flight
    commits,        \* per document, the statuses committed to its row, in order
    response,       \* the last answer_question call and what it returned
    call            \* a call of a pure function: its arguments and its result

vars == <<index, metadata, index_path, metadata_path, last, documents, document_chunks,
          reply, pc, running, work, commits, response, call>>

\* The question answering and the function calls, left alone by everything else.
askVars == <<response, call>>

\* The requests in flight, left alone by calls made outside a request.
loopVars == <<pc, running, work>>

\* What the FAISSService methods leave alone.
appVars == <<documents, document_chunks, reply, loopVars, commits, askVars>>

----------------------------------------------------------------------------
(* Bounds *)

MaxVectors == 2     \* cap on len(index) and len(metadata) under Spec
MaxSaved == 1       \* the same cap under SpecDisk, where the files multiply the states
MaxBatch == 2       \* longest argument of one add_vectors call
MaxK == 3           \* largest k passed to search

----------------------------------------------------------------------------
(* Values *)

\* FAISSService.dimension (384 in the source, one component in the model).
dimension == 1

\* Component values an embedding can carry before the float32 coercion.
RawVals == 0 .. 2

\* numpy astype('float32'): rounds to the nearest representable value; the
\* representable values of the model are the even numbers.
AsFloat32(x) == 2 * (x \div 2)

AsFloat32Vec(v) == [i \in 1 .. Len(v) |-> AsFloat32(v[i])]

\* Vectors of the index dimension, and one of a foreign dimension.
RawVecs == [1 .. dimension -> RawVals]
WrongDimVec == [i \in 1 .. dimension + 1 |-> 0]

ChunkIds == {"c1", "c2"}

Min(a, b) == IF a < b THEN a ELSE b

RECURSIVE SeqsUpTo(_, _)
SeqsUpTo(S, n) ==
    IF n = 0 THEN {<<>>}
    ELSE LET shorter == SeqsUpTo(S, n - 1)
         IN  shorter \cup {Append(s, x) : s \in {t \in shorter : Len(t) = n - 1}, x \in S}

Absent == [st |-> "absent", data |-> <<>>]
Corrupt == [st |-> "corrupt", data |-> <<>>]
File(d) == [st |-> "ok", data |-> d]

----------------------------------------------------------------------------
(* faiss.IndexFlatL2: exact exhaustive search *)

RECURSIVE SumSq(_, _, _)
SumSq(a, b, i) ==
    IF i = 0 THEN 0 ELSE (a[i] - b[i]) * (a[i] - b[i]) + SumSq(a, b, i - 1)

\* Squared Euclidean distance of two vectors of the index dimension.
L2Sqr(a, b) == SumSq(a, b, dimension)

\* r is reported before p: smaller distance first, equal distances in
\* insertion order (the flat index scans in order and keeps the earlier label).
Before(xb, q, r, p) ==
    \/ L2Sqr(xb[r], q) < L2Sqr(xb[p], q)
    \/ L2Sqr(xb[r], q) = L2Sqr(xb[p], q) /\ r < p

Rank(xb, q, p) == Cardinality({r \in 1 .. Len(xb) : Before(xb, q, r, p)}) + 1

NthNearest(xb, q, i) == CHOOSE p \in 1 .. Len(xb) : Rank(xb, q, p) = i

\* A distance larger than any the model can produce: FAISS pads the result
\* with label -1 at the largest float when k exceeds ntotal.
FarAway == 1000

\* index.search(q, k): D[i] is the i-th smallest distance and I[i] the
\* 0-based label of the vector at that distance.
FlatL2Search(xb, q, k) ==
    [D |-> [i \in 1 .. k |-> IF i <= Len(xb) THEN L2Sqr(xb[NthNearest(xb, q, i)], q)
                                             ELSE FarAway],
     I |-> [i \in 1 .. k |-> IF i <= Len(xb) THEN NthNearest(xb, q, i) - 1
                                             ELSE -1]]

----------------------------------------------------------------------------
(* FAISSService *)

\* Python list indexing: a negative subscript counts from the end.
PyIndex(list, i) == IF i >= 0 THEN list[i + 1] ELSE list[Len(list) + i + 1]

PyIndexRaises(list, i) == i >= Len(list) \/ i < 0 - Len(list)

\* [self.metadata[idx] for idx in indices[0] if idx < len(self.metadata)]
ResultChunkIds(meta, labels) ==
    LET kept == SelectSeq(labels, LAMBDA idx : idx < Len(meta))
    IN  [i \in 1 .. Len(kept) |-> PyIndex(meta, kept[i])]

\* search without the early return on an empty index: index.search is then
\* called with k = 0, which it rejects.
SearchWithoutEmptyCheck(xb, meta, query_embedding, k) ==
    IF Len(query_embedding) # dimension \/ Min(k, Len(xb)) < 1
    THEN [raised |-> TRUE, distances |-> <<>>, chunk_ids |-> <<>>]
    ELSE LET r == FlatL2Search(xb, AsFloat32Vec(query_embedding), Min(k, Len(xb)))
         IN  [raised |-> FALSE, distances |-> r.D, chunk_ids |-> ResultChunkIds(meta, r.I)]

\* search without the float32 coercion of the query.
SearchRawQuery(xb, meta, query_embedding, k) ==
    IF Len(xb) = 0
    THEN [raised |-> FALSE, distances |-> <<>>, chunk_ids |-> <<>>]
    ELSE IF Len(query_embedding) # dimension \/ Min(k, Len(xb)) < 1
    THEN [raised |-> TRUE, distances |-> <<>>, chunk_ids |-> <<>>]
    ELSE LET r == FlatL2Search(xb, query_embedding, Min(k, Len(xb)))
         IN  [raised |-> FALSE, distances |-> r.D, chunk_ids |-> ResultChunkIds(meta, r.I)]

\* FAISSService.search. `raised` is an exception leaving the method.  The
\* branch `self.index is None` is not modelled: __init__ always assigns an index.
search(xb, meta, query_embedding, k) ==
    IF Len(xb) = 0
    THEN [raised |-> FALSE, distances |-> <<>>, chunk_ids |-> <<>>]
    ELSE IF Len(query_embedding) # dimension \/ Min(k, Len(xb)) < 1
    THEN [raised |-> TRUE, distances |-> <<>>, chunk_ids |-> <<>>]
    ELSE LET q == AsFloat32Vec(query_embedding)
             kk == Min(k, Len(xb))
             r == FlatL2Search(xb, q, kk)
         IN  IF \E i \in 1 .. kk : r.I[i] < Len(meta) /\ PyIndexRaises(meta, r.I[i])
             THEN [raised |-> TRUE, distances |-> <<>>, chunk_ids |-> <<>>]
             ELSE [raised |-> FALSE,
                   distances |-> r.D,
                   chunk_ids |-> ResultChunkIds(meta, r.I)]

\* load_index that reads the index file and leaves the id list empty.
LoadResultWithoutIds(ifile, mfile) ==
    IF ifile.st = "ok" /\ mfile.st = "ok"
    THEN [index |-> ifile.data, metadata |-> <<>>]
    ELSE [index |-> <<>>, metadata |-> <<>>]

\* FAISSService.load_index, as a function of the two files: the index and the
\* id list the instance holds afterwards.
LoadResult(ifile, mfile) ==
    IF ifile.st # "absent" /\ mfile.st # "absent"
    THEN IF ifile.st = "corrupt" \/ mfile.st = "corrupt"
         THEN [index |-> <<>>, metadata |-> <<>>]
         ELSE [index |-> ifile.data, metadata |-> mfile.data]
    ELSE [index |-> <<>>, metadata |-> <<>>]

\* FAISSService.__init__, as a function of the two files.
InitResult(ifile, mfile) ==
    IF ifile.st # "absent"
    THEN LoadResult(ifile, mfile)
    ELSE [index |-> <<>>, metadata |-> <<>>]

\* How a save_index call can end: it returns, or one of its three writes raises.
SaveOutcomes == {"ok", "write_index_fails", "write_index_torn", "open_fails", "dump_fails"}

\* The index file after save_index of xb ending as `outcome`.
SavedIndexFile(old, xb, outcome) ==
    CASE outcome = "write_index_fails" -> old
      [] outcome = "write_index_torn" -> Corrupt
      [] OTHER -> File(xb)

\* The id-mapping file after save_index of meta ending as `outcome`:
\* open(.., 'wb') truncates, pickle.dump fills.
SavedMetadataFile(old, meta, outcome) ==
    CASE outcome = "ok" -> File(meta)
      [] outcome = "dump_fails" -> Corrupt
      [] OTHER -> old

\* What `last` records: the method, whether it returned (rather than raised),
\* and for add_vectors how many vectors and how many ids it appended.
Done(op, ok) == [op |-> op, ok |-> ok, n |-> 0, m |-> 0]

\* The document ids uuid4 can give an upload.
DocIds == {"doc_1", "doc_2"}

\* What `reply` records: the entry point, the document id, the text handed to
\* index_document ("none": index_document was not called), its return value,
\* the HTTP status of the upload, and whether embed_texts was called.
Reply(op, doc, text, success, error, http, embedded) ==
    [op |-> op, doc |-> doc, text |-> text, success |-> success, error |-> error,
     http |-> http, embedded |-> embedded]
NoReply == Reply("none", "none", "none", TRUE, "", 0, FALSE)

\* The requests: one POST /upload per document id and two POST /ask.
Uploads == DocIds
Asks == {"ask_1", "ask_2"}
Requests == Uploads \cup Asks

\* The locals of a handler: the extracted text of an upload; the query, the
\* clamped k, the labels and distances of index.search and the ids of an ask.
Work(text, q, k, I, D, ids) ==
    [text |-> text, q |-> q, k |-> k, I |-> I, D |-> D, chunk_ids |-> ids]
NoWork == Work("none", <<>>, 0, <<>>, <<>>, <<>>)

\* What answer_question returns and did on the way: the dictionary it returns,
\* the ids retrieve_relevant_chunks gave, the chunk dictionaries
\* get_chunk_contents gave, the context handed to the completion service, and
\* whether get_chunk_contents and the completion service were called.
QAResult(success, answer, error, sources, chunk_ids, chunks, context, looked_up, completed) ==
    [success |-> success, answer |-> answer, error |-> error, sources |-> sources,
     num_sources |-> Len(sources), chunk_ids |-> chunk_ids, chunks |-> chunks,
     context |-> context, looked_up |-> looked_up, completed |-> completed]

\* What `response` records: the question of a POST /ask, the faults it met,
\* what answer_question returned (if it was called) and the HTTP status.
Response(op, question, embedFails, dbFails, llmFails, result, http) ==
    [op |-> op, question |-> question, embedFails |-> embedFails, dbFails |-> dbFails,
     llmFails |-> llmFails, result |-> result, http |-> http]
NoResult == QAResult(TRUE, "", "", <<>>, <<>>, <<>>, <<>>, FALSE, FALSE)
NoResponse == Response("none", <<>>, FALSE, FALSE, FALSE, NoResult, 0)

\* What `call` records: the function, its arguments, and its result once it
\* has been applied.
Call(fn, args, done, result) == [fn |-> fn, args |-> args, done |-> done, result |-> result]
NoCall == Call("none", <<>>, FALSE, <<>>)
Added(ok, n, m) == [op |-> "add", ok |-> ok, n |-> n, m |-> m]

\* FAISSService.create_index
create_index ==
    /\ index' = <<>>
    /\ metadata' = <<>>
    /\ last' = Done("create", TRUE)
    /\ UNCHANGED <<index_path, metadata_path, appVars>>

\* The arguments add_vectors is called with: an array of one or more rows,
\* of the index dimension or not, and a list of ids of any length.
EmbeddingArgs == (SeqsUpTo(RawVecs, MaxBatch) \ {<<>>}) \cup {<<WrongDimVec>>}
ChunkIdArgs == SeqsUpTo(ChunkIds, MaxBatch)

\* self.index.add(embeddings) raises, before storing anything, on a row of
\* another dimension.
IndexAddRaises(embeddings) == \E i \in 1 .. Len(embeddings) : Len(embeddings[i]) # dimension

\* self.index.add(embeddings.astype('float32'))
IndexAdd(xb, embeddings) == xb \o [i \in 1 .. Len(embeddings) |-> AsFloat32Vec(embeddings[i])]

\* self.metadata.extend(chunk_ids)
MetadataExtend(meta, chunk_ids) == meta \o chunk_ids

\* FAISSService.add_vectors. extendRaises: the extend statement raises (a
\* chunk_ids argument that is not iterable), after index.add has returned.
\* cap keeps the two sequences within the bound of the specification.
add_vectors(cap, embeddings, chunk_ids, extendRaises) ==
    /\ Len(index) + Len(embeddings) <= cap
    /\ Len(metadata) + Len(chunk_ids) <= cap
    /\ IF IndexAddRaises(embeddings)
       THEN /\ UNCHANGED <<index, metadata>>
            /\ last' = Done("add", FALSE)
       ELSE /\ index' = IndexAdd(index, embeddings)
            /\ IF extendRaises
               THEN /\ UNCHANGED metadata
                    /\ last' = Added(FALSE, Len(embeddings), 0)
               ELSE /\ metadata' = MetadataExtend(metadata, chunk_ids)
                    /\ last' = Added(TRUE, Len(embeddings), Len(chunk_ids))
    /\ UNCHANGED <<index_path, metadata_path, appVars>>

\* A call of FAISSService.search; the service is left as it was.
search_call(q, k) ==
    /\ last' = Done("search", ~search(index, metadata, q, k).raised)
    /\ UNCHANGED <<index, metadata, index_path, metadata_path, appVars>>

\* FAISSService.save_index
save_index(outcome) ==
    /\ index_path' = SavedIndexFile(index_path, index, outcome)
    /\ metadata_path' = SavedMetadataFile(metadata_path, metadata, outcome)
    /\ last' = Done("save", outcome = "ok")
    /\ UNCHANGED <<index, metadata, appVars>>

\* FAISSService.load_index
load_index ==
    /\ index' = LoadResult(index_path, metadata_path).index
    /\ metadata' = LoadResult(index_path, metadata_path).metadata
    /\ last' = Done("load", TRUE)
    /\ UNCHANGED <<index_path, metadata_path, appVars>>

\* A new process: the module-level FAISSService() runs __init__.
Restart ==
    /\ index' = InitResult(index_path, metadata_path).index
    /\ metadata' = InitResult(index_path, metadata_path).metadata
    /\ last' = Done("init", TRUE)
    /\ reply' = NoReply
    /\ pc' = [r \in Requests |-> "none"]
    /\ running' = {}
    /\ work' = [r \in Requests |-> NoWork]
    /\ UNCHANGED <<index_path, metadata_path, documents, document_chunks, commits, askVars>>

\* reset_index without its save_index call.
ResetIndexWithoutSave(outcome) ==
    /\ index' = <<>>
    /\ metadata' = <<>>
    /\ last' = Done("reset", outcome = "ok")
    /\ UNCHANGED <<index_path, metadata_path, appVars>>

\* FAISSService.reset_index: create_index, then save_index
reset_index(outcome) ==
    /\ index' = <<>>
    /\ metadata' = <<>>
    /\ index_path' = SavedIndexFile(index_path, <<>>, outcome)
    /\ metadata_path' = SavedMetadataFile(metadata_path, <<>>, outcome)
    /\ last' = Done("reset", outcome = "ok")
    /\ UNCHANGED appVars

Queries == RawVecs \cup {WrongDimVec}

\* First start on an empty storage directory: __init__ finds no index file.
\* The state after construction, but for the function call under study.
Constructed ==
    /\ index = <<>>
    /\ metadata = <<>>
    /\ index_path = Absent
    /\ metadata_path = Absent
    /\ last = Done("init", TRUE)
    /\ documents = [d \in DocIds |-> "none"]
    /\ document_chunks = {}
    /\ reply = NoReply
    /\ pc = [r \in Requests |-> "none"]
    /\ running = {}
    /\ work = [r \in Requests |-> NoWork]
    /\ commits = [d \in DocIds |-> <<>>]
    /\ response = NoResponse

Init == Constructed /\ call = NoCall

\* The service in memory: no call touches the files.
Next ==
    \/ create_index
    \/ \E e \in EmbeddingArgs, c \in ChunkIdArgs, x \in BOOLEAN :
          add_vectors(MaxVectors, e, c, x)
    \/ \E q \in Queries, k \in 1 .. MaxK : search_call(q, k)

Spec == Init /\ [][Next]_vars

\* The service and its files: saves that return or raise, loads, new processes.
NextDisk ==
    \/ create_index
    \/ \E e \in EmbeddingArgs, c \in ChunkIdArgs, x \in BOOLEAN :
          add_vectors(MaxSaved, e, c, x)
    \/ \E o \in SaveOutcomes : save_index(o)
    \/ load_index
    \/ Restart
    \/ \E o \in SaveOutcomes : reset_index(o)

SpecDisk == Init /\ [][NextDisk]_vars

----------------------------------------------------------------------------
(* utils/chunking.py.  A text is the sequence of its characters. *)

CHUNK_SIZE == 500
CHUNK_OVERLAP == 50

\* The look-back of the sentence-boundary search, in characters.
BoundaryWindow == 100

Max(a, b) == IF a > b THEN a ELSE b

\* What str.strip() removes.
Whitespace == {" ", "\n", "\t"}

\* A Python slice bound: negative bounds count from the end, all are clipped.
PyBound(i, n) == IF i < 0 THEN Max(i + n, 0) ELSE Min(i, n)

\* text[a:b]
PySlice(text, a, b) ==
    LET lo == PyBound(a, Len(text))
        hi == PyBound(b, Len(text))
    IN  IF lo < hi THEN SubSeq(text, lo + 1, hi) ELSE <<>>

\* text.rfind(ch, a, b): the highest 0-based index in [a, b) holding ch, or -1.
PyRFind(text, ch, a, b) ==
    LET lo == PyBound(a, Len(text))
        hi == PyBound(b, Len(text))
        hits == {i \in lo .. hi - 1 : text[i + 1] = ch}
    IN  IF hits = {} THEN -1 ELSE CHOOSE i \in hits : \A j \in hits : j <= i

\* text.strip()
PyStrip(text) ==
    IF \A i \in 1 .. Len(text) : text[i] \in Whitespace THEN <<>>
    ELSE SubSeq(text,
                CHOOSE i \in 1 .. Len(text) :
                    text[i] \notin Whitespace /\ \A j \in 1 .. i - 1 : text[j] \in Whitespace,
                CHOOSE i \in 1 .. Len(text) :
                    text[i] \notin Whitespace
                        /\ \A j \in i + 1 .. Len(text) : text[j] \in Whitespace)

\* The window end of one loop iteration (lines 33-44).
ChunkEnd(text, chunk_size, start) ==
    LET end == start + chunk_size
    IN  IF end < Len(text)
        THEN LET search_start == Max(end - BoundaryWindow, start)
                 last_period == PyRFind(text, ".", search_start, end)
                 last_newline == PyRFind(text, "\n", search_start, end)
                 last_boundary == Max(last_period, last_newline)
             IN  IF last_boundary > start THEN last_boundary + 1 ELSE end
        ELSE end

\* The cursor when it retreats by twice the overlap.
NextStartRetreatsTwice(text, chunk_size, overlap, start) ==
    LET end == ChunkEnd(text, chunk_size, start)
    IN  IF end < Len(text) THEN end - 2 * overlap ELSE end

\* The cursor after one loop iteration (line 52).
NextStart(text, chunk_size, overlap, start) ==
    LET end == ChunkEnd(text, chunk_size, start)
    IN  IF end < Len(text) THEN end - overlap ELSE end

\* The while loop of chunk_text from cursor `start`.  The cursor is all the
\* loop's control state and, while the loop runs, stays within
\* -overlap .. len(text) - 1 (a window ends at 0 or later), so a loop that has
\* not ended after len(text) + overlap + 1 iterations never ends.
RECURSIVE ChunkLoop(_, _, _, _, _, _)
ChunkLoop(text, chunk_size, overlap, start, chunks, fuel) ==
    IF ~(start < Len(text)) THEN [chunks |-> chunks, terminates |-> TRUE]
    ELSE IF fuel = 0 THEN [chunks |-> chunks, terminates |-> FALSE]
    ELSE LET end == ChunkEnd(text, chunk_size, start)
             chunk == PyStrip(PySlice(text, start, end))
         IN  ChunkLoop(text, chunk_size, overlap,
                       NextStart(text, chunk_size, overlap, start),
                       IF chunk # <<>> THEN Append(chunks, chunk) ELSE chunks,
                       fuel - 1)

\* chunk_text(text, chunk_size, overlap): the chunks, and whether the call returns.
chunk_text(text, chunk_size, overlap) ==
    IF Len(text) = 0 THEN [chunks |-> <<>>, terminates |-> TRUE]
    ELSE ChunkLoop(text, chunk_size, overlap, 0, <<>>, Len(text) + overlap + 1)

\* The iterations of the while loop from cursor `start`: the cursor and the
\* window end of each, for as many iterations as chunk_text runs before it
\* returns or is known never to return.
RECURSIVE ChunkWindows(_, _, _, _, _, _)
ChunkWindows(text, chunk_size, overlap, start, windows, fuel) ==
    IF ~(start < Len(text)) \/ fuel = 0 THEN windows
    ELSE ChunkWindows(text, chunk_size, overlap,
                      NextStart(text, chunk_size, overlap, start),
                      Append(windows, [start |-> start,
                                       end |-> ChunkEnd(text, chunk_size, start)]),
                      fuel - 1)

\* The iterations of chunk_text(text, chunk_size, overlap).
chunk_windows(text, chunk_size, overlap) ==
    ChunkWindows(text, chunk_size, overlap, 0, <<>>, Len(text) + overlap + 1)

\* The part of the text that text[start:end].strip() keeps, as 0-based
\* positions [from, to) of the text; from = to when nothing is kept.
StrippedSpan(text, w) ==
    LET lo == PyBound(w.start, Len(text))
        hi == Max(lo, PyBound(w.end, Len(text)))
        kept == {i \in lo + 1 .. hi : text[i] \notin Whitespace}
    IN  IF kept = {} THEN [from |-> lo, to |-> lo]
        ELSE [from |-> (CHOOSE i \in kept : \A j \in kept : i <= j) - 1,
              to |-> CHOOSE i \in kept : \A j \in kept : j <= i]

\* Where in the text each chunk of the returned list comes from.
chunk_spans(text, chunk_size, overlap) ==
    LET windows == chunk_windows(text, chunk_size, overlap)
        spans == [i \in 1 .. Len(windows) |-> StrippedSpan(text, windows[i])]
    IN  SelectSeq(spans, LAMBDA sp : sp.from < sp.to)

----------------------------------------------------------------------------
(* The indexing pipeline: agents/indexing_agent.py and api/upload.py.
   SpecDoc runs uploads and direct index_document calls, each with the faults
   its steps can meet, and restarts of the service. *)

MaxIndexed == 3     \* cap on len(index) under SpecDoc

\* extract_meaningful_text: the shortest text and the fewest words it accepts.
min_length == 50
MinWords == 5

Repeat(ch, n) == [i \in 1 .. n |-> ch]

\* The texts handed to index_document, by name: no text, only whitespace, one
\* line of five words (one chunk), and a sentence followed by four more words,
\* longer than CHUNK_SIZE (two chunks).
TextNames == {"empty", "blank", "short", "long"}
NamedText(name) ==
    CASE name = "empty" -> <<>>
      [] name = "blank" -> <<" ", "\n", " ">>
      [] name = "short" -> Repeat("a", 11) \o <<" ">> \o Repeat("b", 11) \o <<" ">>
                           \o Repeat("c", 11) \o <<" ">> \o Repeat("d", 11) \o <<" ">>
                           \o Repeat("e", 11)
      [] name = "long" -> Repeat("a", CHUNK_SIZE - 20) \o <<".">>
                          \o <<" ">> \o Repeat("b", 29) \o <<" ">> \o Repeat("c", 29)
                          \o <<" ">> \o Repeat("d", 29) \o <<" ">> \o Repeat("e", 29)

Texts == [name \in TextNames |-> NamedText(name)]
TextOf(name) == Texts[name]

\* chunk_text under the settings, tabulated over the texts.
ChunksOfText ==
    [text \in {Texts[name] : name \in TextNames} |->
        chunk_text(text, CHUNK_SIZE, CHUNK_OVERLAP)]

\* len(text.split())
PySplitLen(text) ==
    Cardinality({i \in 1 .. Len(text) :
                    text[i] \notin Whitespace /\ (i = 1 \/ text[i - 1] \in Whitespace)})

\* Whether extract_meaningful_text returns the (already clean) text.
IsMeaningful(text) == ~(Len(text) < min_length) /\ ~(PySplitLen(text) < MinWords)

\* The texts process_document can hand to the upload.
ExtractedTexts == {name \in TextNames : IsMeaningful(TextOf(name))}

\* f"{document_id}_chunk_{idx}"
ChunkId(document_id, idx) == document_id \o "_chunk_" \o ToString(idx)

\* Chunk dictionaries whose chunk_index counts from 1.
ChunkObjectsFromOne(chunks, document_id) ==
    [i \in 1 .. Len(chunks) |->
        [chunk_id |-> ChunkId(document_id, i - 1), document_id |-> document_id,
         chunk_index |-> i, content |-> chunks[i]]]

\* The chunk dictionaries of chunk_document_text (lines 54-62).
ChunkObjects(chunks, document_id) ==
    [i \in 1 .. Len(chunks) |->
        [chunk_id |-> ChunkId(document_id, i - 1), document_id |-> document_id,
         chunk_index |-> i - 1, content |-> chunks[i]]]

\* chunk_document_text: the chunk dictionaries of a text.
chunk_document_text(text, document_id) ==
    ChunkObjects(ChunksOfText[text].chunks, document_id)

\* The sentence-transformer as a function of the text: one vector per text.
EmbedText(content) == [i \in 1 .. dimension |-> Len(content) % 3]
embed_texts(chunk_texts) == [i \in 1 .. Len(chunk_texts) |-> EmbedText(chunk_texts[i])]

\* chunk.get("embedding_index") of a dictionary that never has the key.
None == "None"

\* The chunks with chunk["embedding"] set (lines 94-95).
WithEmbeddings(chunks, embeddings) ==
    [i \in 1 .. Len(chunks) |->
        [chunk_id |-> chunks[i].chunk_id, document_id |-> chunks[i].document_id,
         chunk_index |-> chunks[i].chunk_index, content |-> chunks[i].content,
         embedding |-> embeddings[i]]]

\* generate_embeddings of a non-empty chunk list, when the model does not raise.
generate_embeddings(chunks) ==
    WithEmbeddings(chunks, embed_texts([i \in 1 .. Len(chunks) |-> chunks[i].content]))

\* The state after faiss_service.add_vectors(embeddings, chunk_ids) and
\* faiss_service.save_index() inside the try of store_in_vector_db.
VectorsStored(xb, meta, ifile, mfile, embeddings, chunk_ids, saveOutcome) ==
    IF IndexAddRaises(embeddings)
    THEN [ok |-> FALSE, index |-> xb, metadata |-> meta,
          index_path |-> ifile, metadata_path |-> mfile,
          calls |-> <<Added(FALSE, 0, 0)>>]
    ELSE [ok |-> saveOutcome = "ok",
          index |-> IndexAdd(xb, embeddings),
          metadata |-> MetadataExtend(meta, chunk_ids),
          index_path |-> SavedIndexFile(ifile, IndexAdd(xb, embeddings), saveOutcome),
          metadata_path |-> SavedMetadataFile(mfile, MetadataExtend(meta, chunk_ids),
                                              saveOutcome),
          calls |-> <<Added(TRUE, Len(embeddings), Len(chunk_ids)),
                      Done("save", saveOutcome = "ok")>>]

\* store_in_vector_db: add_vectors then save_index; any exception gives False
\* and leaves what was done before it.
store_in_vector_db(xb, meta, ifile, mfile, chunks, saveOutcome) ==
    IF Len(chunks) = 0
    THEN [ok |-> FALSE, index |-> xb, metadata |-> meta,
          index_path |-> ifile, metadata_path |-> mfile, calls |-> <<>>]
    ELSE VectorsStored(xb, meta, ifile, mfile,
                       [i \in 1 .. Len(chunks) |-> chunks[i].embedding],
                       [i \in 1 .. Len(chunks) |-> chunks[i].chunk_id], saveOutcome)

\* The rows store_chunk_metadata adds for the chunks.
ChunkRows(chunks) ==
    {[chunk_id |-> chunks[i].chunk_id, document_id |-> chunks[i].document_id,
      chunk_index |-> chunks[i].chunk_index, content |-> chunks[i].content,
      embedding_index |-> None] : i \in 1 .. Len(chunks)}

\* Whether the transaction of store_chunk_metadata raises: the database fails,
\* or a chunk_id is already in the table (the column is unique).
DbRaises(table, chunks, dbFails) ==
    dbFails \/ \E c \in table : \E i \in 1 .. Len(chunks) : c.chunk_id = chunks[i].chunk_id

StoreChunkMetadataKeepsRows(table, chunks, dbFails) ==
    IF DbRaises(table, chunks, dbFails)
    THEN [ok |-> FALSE, table |-> table \cup {r \in ChunkRows(chunks) : r.chunk_index = 0}]
    ELSE [ok |-> TRUE, table |-> table \cup ChunkRows(chunks)]

\* store_chunk_metadata: all rows in one transaction, rolled back on any exception.
store_chunk_metadata(table, chunks, dbFails) ==
    IF DbRaises(table, chunks, dbFails)
    THEN [ok |-> FALSE, table |-> table]
    ELSE [ok |-> TRUE, table |-> table \cup ChunkRows(chunks)]

ChunksNeverMissing(chunks) == FALSE

\* `not chunks`
NoChunks(chunks) == Len(chunks) = 0

\* What index_document returns and the state it leaves.
IndexResult(success, error, embedded, xb, meta, ifile, mfile, table, calls) ==
    [success |-> success, error |-> error, embedded |-> embedded,
     index |-> xb, metadata |-> meta, index_path |-> ifile, metadata_path |-> mfile,
     document_chunks |-> table, calls |-> calls]

\* Step 4 of index_document and its return (lines 205-218), after step 3 left v.
StoreMetadataStep(v, m) ==
    IF ~m.ok
    THEN IndexResult(FALSE, "Failed to store metadata", TRUE, v.index, v.metadata,
                     v.index_path, v.metadata_path, m.table, v.calls)
    ELSE IndexResult(TRUE, "", TRUE, v.index, v.metadata,
                     v.index_path, v.metadata_path, m.table, v.calls)

\* Steps 3 and 4 of index_document (lines 197-218).
StoreVectorsStep(v, chunks_with_embeddings, dbFails) ==
    IF ~v.ok
    THEN IndexResult(FALSE, "Failed to store vectors", TRUE, v.index, v.metadata,
                     v.index_path, v.metadata_path, document_chunks, v.calls)
    ELSE StoreMetadataStep(v, store_chunk_metadata(document_chunks,
                                                   chunks_with_embeddings, dbFails))

\* Steps 2 to 4 of index_document (lines 194-218) on chunk dictionaries.
EmbedStep(chunks_with_embeddings, saveOutcome, dbFails) ==
    StoreVectorsStep(store_in_vector_db(index, metadata, index_path, metadata_path,
                                        chunks_with_embeddings, saveOutcome),
                     chunks_with_embeddings, dbFails)

IndexChunksAddsBeforeEmbeddingFails(chunks, embedRaises, saveOutcome, dbFails) ==
    IF NoChunks(chunks)
    THEN IndexResult(FALSE, "Failed to create chunks", FALSE, index, metadata,
                     index_path, metadata_path, document_chunks, <<>>)
    ELSE IF embedRaises
    THEN IndexResult(FALSE, "Indexing error", TRUE,
                     IndexAdd(index, [i \in 1 .. Len(chunks) |-> EmbedText(chunks[i].content)]),
                     metadata, index_path, metadata_path, document_chunks, <<>>)
    ELSE EmbedStep(generate_embeddings(chunks), saveOutcome, dbFails)

\* index_document after step 1 gave `chunks`.  Without the return of line 189
\* the empty list goes on: generate_embeddings returns it without calling the
\* model and store_in_vector_db returns False
IndexChunks(chunks, embedRaises, saveOutcome, dbFails) ==
    IF NoChunks(chunks)
    THEN IndexResult(FALSE, "Failed to create chunks", FALSE, index, metadata,
                     index_path, metadata_path, document_chunks, <<>>)
    ELSE IF Len(chunks) = 0
    THEN IndexResult(FALSE, "Failed to store vectors", FALSE, index, metadata,
                     index_path, metadata_path, document_chunks, <<>>)
    ELSE IF embedRaises
    THEN IndexResult(FALSE, "Indexing error", TRUE, index, metadata,
                     index_path, metadata_path, document_chunks, <<>>)
    ELSE EmbedStep(generate_embeddings(chunks), saveOutcome, dbFails)

\* index_document(text, document_id) from the current state; embedRaises,
\* saveOutcome and dbFails are the faults of steps 2, 3 and 4.
index_document(text, document_id, embedRaises, saveOutcome, dbFails) ==
    IndexChunks(chunk_document_text(text, document_id), embedRaises, saveOutcome, dbFails)

\* The state index_document leaves, as the next state.
Indexed(r) ==
    /\ index' = r.index
    /\ metadata' = r.metadata
    /\ index_path' = r.index_path
    /\ metadata_path' = r.metadata_path
    /\ document_chunks' = r.document_chunks
    /\ last' = IF r.calls = <<>> THEN last ELSE r.calls[Len(r.calls)]

\* A document id uuid4 has not given before.
Fresh(document_id) ==
    /\ documents[document_id] = "none"
    /\ \A c \in document_chunks : c.document_id # document_id
    /\ \A i \in 1 .. Len(metadata), name \in TextNames :
          \A j \in 1 .. Len(chunk_document_text(TextOf(name), document_id)) :
              metadata[i] # ChunkId(document_id, j - 1)

\* The texts whose chunking returns and fits the cap.
Indexable(name) ==
    /\ ChunksOfText[TextOf(name)].terminates
    /\ Len(index) + Len(chunk_document_text(TextOf(name), "")) <= MaxIndexed

\* A call of indexing_agent.index_document(text, document_id).
index_document_call(name, document_id, embedRaises, saveOutcome, dbFails) ==
    /\ Fresh(document_id)
    /\ Indexable(name)
    /\ \E r \in {index_document(TextOf(name), document_id, embedRaises, saveOutcome, dbFails)} :
           /\ Indexed(r)
           /\ reply' = Reply("index_document", document_id, name, r.success, r.error,
                             0, r.embedded)
    /\ UNCHANGED <<documents, loopVars, commits, askVars>>

\* POST /upload of a file whose ingestion fails.
upload_rejected(document_id) ==
    /\ Fresh(document_id)
    /\ documents' = [documents EXCEPT ![document_id] = "failed"]
    /\ commits' = [commits EXCEPT ![document_id] = <<"processing", "failed">>]
    /\ reply' = Reply("upload", document_id, "none", FALSE, "Ingestion failed", 400, FALSE)
    /\ UNCHANGED <<index, metadata, index_path, metadata_path, last, document_chunks,
                   loopVars, askVars>>

\* The status upload_document commits after index_document returned r.
StatusAfterIndexing(r) == IF r.success THEN "indexed" ELSE "failed"

StatusCommitsWithoutRaise(r) ==
    IF r.success THEN <<"processing", "indexed">> ELSE <<"processing", "failed", "indexed">>

\* The statuses upload_document commits to the row of its document, in order:
\* processing with the new row (lines 62-71), then the outcome of indexing.
StatusCommits(r) == <<"processing", StatusAfterIndexing(r)>>

\* POST /upload of a file whose ingestion extracts the text `name`.
upload_document(name, document_id, embedRaises, saveOutcome, dbFails) ==
    /\ Fresh(document_id)
    /\ name \in ExtractedTexts
    /\ Indexable(name)
    /\ \E r \in {index_document(TextOf(name), document_id, embedRaises, saveOutcome, dbFails)} :
           /\ Indexed(r)
           /\ documents' = [documents EXCEPT
                                ![document_id] = StatusCommits(r)[Len(StatusCommits(r))]]
           /\ commits' = [commits EXCEPT ![document_id] = StatusCommits(r)]
           /\ reply' = Reply("upload", document_id, name, r.success, r.error,
                             IF r.success THEN 200 ELSE 500, r.embedded)
    /\ UNCHANGED <<loopVars, askVars>>

NextDoc ==
    \/ \E name \in TextNames, document_id \in DocIds, embedRaises \in BOOLEAN,
          saveOutcome \in SaveOutcomes, dbFails \in BOOLEAN :
          index_document_call(name, document_id, embedRaises, saveOutcome, dbFails)
    \/ \E document_id \in DocIds : upload_rejected(document_id)
    \/ \E name \in TextNames, document_id \in DocIds, embedRaises \in BOOLEAN,
          saveOutcome \in SaveOutcomes, dbFails \in BOOLEAN :
          upload_document(name, document_id, embedRaises, saveOutcome, dbFails)
    \/ Restart

SpecDoc == Init /\ [][NextDoc]_vars

\* Uploads only: no direct index_document call, no reset, no new process.
NextUpload ==
    \/ \E document_id \in DocIds : upload_rejected(document_id)
    \/ \E name \in TextNames, document_id \in DocIds, embedRaises \in BOOLEAN,
          saveOutcome \in SaveOutcomes, dbFails \in BOOLEAN :
          upload_document(name, document_id, embedRaises, saveOutcome, dbFails)

SpecUpload == Init /\ [][NextUpload]_vars

----------------------------------------------------------------------------
(* Requests in flight: api/upload.py and api/ask.py under the server of
   main.py.  Both handlers are coroutines of one event loop: a handler runs
   from one await to the next without another handler running, and the only
   await is file.read() of the upload.  SpecLoop runs the handlers statement
   by statement, without faults. *)

TOP_K_RESULTS == 5

\* The statements of a handler at which it is inside a FAISSService method.
AddSteps == {"metadata_extend"}
SaveSteps == {"pickle_dump"}
SearchSteps == {"index_search", "result_chunk_ids"}

MayStartOnAnyThread(r) == TRUE

\* Whether the event loop can run the coroutine of request r from where it
\* waits: no other coroutine is running.
MayStart(r) == running = {}

\* The chunks with embeddings an upload indexes.
UploadChunks(r) == generate_embeddings(chunk_document_text(TextOf(work[r].text), r))

\* A request reaches the server.
arrive(r) ==
    /\ pc[r] = "none"
    /\ pc' = [pc EXCEPT ![r] = "pending"]
    /\ UNCHANGED <<index, metadata, index_path, metadata_path, last, documents,
                   document_chunks, reply, running, work>>
    /\ UNCHANGED <<commits, askVars>>

\* upload_document up to `await file.read()` (lines 50-56), where it yields.
upload_begin(r) ==
    /\ r \in Uploads /\ pc[r] = "pending" /\ MayStart(r)
    /\ pc' = [pc EXCEPT ![r] = "file_read"]
    /\ UNCHANGED <<index, metadata, index_path, metadata_path, last, documents,
                   document_chunks, reply, running, work>>
    /\ UNCHANGED <<commits, askVars>>

\* upload_document from the await to the add_vectors call: the document row
\* (lines 62-71), ingestion giving the text `name`, chunking and embedding.
upload_resume(r, name) ==
    /\ r \in Uploads /\ pc[r] = "file_read" /\ MayStart(r)
    /\ name \in ExtractedTexts
    /\ running' = running \cup {r}
    /\ documents' = [documents EXCEPT ![r] = "processing"]
    /\ commits' = [commits EXCEPT ![r] = Append(@, "processing")]
    /\ UNCHANGED askVars
    /\ work' = [work EXCEPT ![r] = Work(name, <<>>, 0, <<>>, <<>>, <<>>)]
    /\ pc' = [pc EXCEPT ![r] = "index_add"]
    /\ UNCHANGED <<index, metadata, index_path, metadata_path, last, document_chunks, reply>>

\* add_vectors line 66: self.index.add(embeddings.astype('float32'))
index_add(r) ==
    /\ r \in running /\ pc[r] = "index_add"
    /\ index' = IndexAdd(index, [i \in 1 .. Len(UploadChunks(r)) |-> UploadChunks(r)[i].embedding])
    /\ pc' = [pc EXCEPT ![r] = "metadata_extend"]
    /\ UNCHANGED <<metadata, index_path, metadata_path, last, documents, document_chunks,
                   reply, running, work>>
    /\ UNCHANGED <<commits, askVars>>

\* add_vectors line 67: self.metadata.extend(chunk_ids)
metadata_extend(r) ==
    /\ r \in running /\ pc[r] = "metadata_extend"
    /\ metadata' = MetadataExtend(metadata,
                       [i \in 1 .. Len(UploadChunks(r)) |-> UploadChunks(r)[i].chunk_id])
    /\ last' = Added(TRUE, Len(UploadChunks(r)), Len(UploadChunks(r)))
    /\ pc' = [pc EXCEPT ![r] = "write_index"]
    /\ UNCHANGED <<index, index_path, metadata_path, documents, document_chunks,
                   reply, running, work>>
    /\ UNCHANGED <<commits, askVars>>

\* save_index line 108: faiss.write_index
write_index(r) ==
    /\ r \in running /\ pc[r] = "write_index"
    /\ index_path' = SavedIndexFile(index_path, index, "ok")
    /\ pc' = [pc EXCEPT ![r] = "pickle_dump"]
    /\ UNCHANGED <<index, metadata, metadata_path, last, documents, document_chunks,
                   reply, running, work>>
    /\ UNCHANGED <<commits, askVars>>

\* save_index lines 111-112: pickle.dump
pickle_dump(r) ==
    /\ r \in running /\ pc[r] = "pickle_dump"
    /\ metadata_path' = SavedMetadataFile(metadata_path, metadata, "ok")
    /\ last' = Done("save", TRUE)
    /\ pc' = [pc EXCEPT ![r] = "store_chunk_metadata"]
    /\ UNCHANGED <<index, metadata, index_path, documents, document_chunks,
                   reply, running, work>>
    /\ UNCHANGED <<commits, askVars>>

\* The rest of upload_document: store_chunk_metadata, the status and the response.
upload_finish(r) ==
    /\ r \in running /\ pc[r] = "store_chunk_metadata"
    /\ \E m \in {store_chunk_metadata(document_chunks, UploadChunks(r), FALSE)} :
           /\ document_chunks' = m.table
           /\ documents' = [documents EXCEPT
                                ![r] = IF m.ok THEN "indexed" ELSE "failed"]
           /\ commits' = [commits EXCEPT
                              ![r] = Append(@, IF m.ok THEN "indexed" ELSE "failed")]
           /\ reply' = Reply("upload", r, work[r].text, m.ok,
                             IF m.ok THEN "" ELSE "Failed to store metadata",
                             IF m.ok THEN 200 ELSE 500, TRUE)
    /\ pc' = [pc EXCEPT ![r] = "done"]
    /\ running' = running \ {r}
    /\ work' = [work EXCEPT ![r] = NoWork]
    /\ UNCHANGED <<index, metadata, index_path, metadata_path, last, askVars>>

\* ask_question up to the search call: the question embedded as q.
ask_begin(r, q) ==
    /\ r \in Asks /\ pc[r] = "pending" /\ MayStart(r)
    /\ running' = running \cup {r}
    /\ work' = [work EXCEPT ![r] = Work("none", q, TOP_K_RESULTS, <<>>, <<>>, <<>>)]
    /\ pc' = [pc EXCEPT ![r] = "search"]
    /\ UNCHANGED <<index, metadata, index_path, metadata_path, last, documents,
                   document_chunks, reply>>
    /\ UNCHANGED <<commits, askVars>>

\* search lines 82-90: the empty check, the float32 query and the clamp of k.
search_enter(r) ==
    /\ r \in running /\ pc[r] = "search"
    /\ IF Len(index) = 0
       THEN /\ pc' = [pc EXCEPT ![r] = "answer"]
            /\ UNCHANGED work
       ELSE /\ pc' = [pc EXCEPT ![r] = "index_search"]
            /\ work' = [work EXCEPT ![r] = Work("none", AsFloat32Vec(work[r].q),
                                                 Min(work[r].k, Len(index)),
                                                 <<>>, <<>>, <<>>)]
    /\ UNCHANGED <<index, metadata, index_path, metadata_path, last, documents,
                   document_chunks, reply, running>>
    /\ UNCHANGED <<commits, askVars>>

\* search line 93: self.index.search(query_embedding, k)
index_search(r) ==
    /\ r \in running /\ pc[r] = "index_search"
    /\ \E res \in {FlatL2Search(index, work[r].q, work[r].k)} :
           work' = [work EXCEPT ![r] = Work("none", work[r].q, work[r].k,
                                            res.I, res.D, <<>>)]
    /\ pc' = [pc EXCEPT ![r] = "result_chunk_ids"]
    /\ UNCHANGED <<index, metadata, index_path, metadata_path, last, documents,
                   document_chunks, reply, running>>
    /\ UNCHANGED <<commits, askVars>>

\* search lines 96-100: the ids of the labels, and the return.
result_chunk_ids(r) ==
    /\ r \in running /\ pc[r] = "result_chunk_ids"
    /\ work' = [work EXCEPT ![r] = Work("none", work[r].q, work[r].k, work[r].I, work[r].D,
                                        ResultChunkIds(metadata, work[r].I))]
    /\ last' = Done("search", TRUE)
    /\ pc' = [pc EXCEPT ![r] = "answer"]
    /\ UNCHANGED <<index, metadata, index_path, metadata_path, documents,
                   document_chunks, reply, running>>
    /\ UNCHANGED <<commits, askVars>>

\* The rest of ask_question: the answer from the retrieved chunks.
ask_finish(r) ==
    /\ r \in running /\ pc[r] = "answer"
    /\ pc' = [pc EXCEPT ![r] = "done"]
    /\ running' = running \ {r}
    /\ UNCHANGED <<index, metadata, index_path, metadata_path, last, documents,
                   document_chunks, reply, work>>
    /\ UNCHANGED <<commits, askVars>>

NextLoop ==
    \/ \E r \in Requests : arrive(r)
    \/ \E r \in Requests : upload_begin(r)
    \/ \E r \in Requests, name \in TextNames : upload_resume(r, name)
    \/ \E r \in Requests : index_add(r)
    \/ \E r \in Requests : metadata_extend(r)
    \/ \E r \in Requests : write_index(r)
    \/ \E r \in Requests : pickle_dump(r)
    \/ \E r \in Requests : upload_finish(r)
    \/ \E r \in Requests, q \in RawVecs : ask_begin(r, q)
    \/ \E r \in Requests : search_enter(r)
    \/ \E r \in Requests : index_search(r)
    \/ \E r \in Requests : result_chunk_ids(r)
    \/ \E r \in Requests : ask_finish(r)

SpecLoop == Init /\ [][NextLoop]_vars

----------------------------------------------------------------------------
(* Context assembly: QAAgent.construct_context.  SpecContext applies it to
   every short list of chunk records. *)

MaxChunkList == 3   \* longest list of chunk records given to construct_context

\* The document ids in the order of Python's string comparison.
DocIdsAscending == <<"doc_1", "doc_2">>
DocRank(d) == CHOOSE i \in 1 .. Len(DocIdsAscending) : DocIdsAscending[i] = d

\* (a["document_id"], a["chunk_index"]) < (b["document_id"], b["chunk_index"])
KeyLess(a, b) ==
    \/ DocRank(a.document_id) < DocRank(b.document_id)
    \/ a.document_id = b.document_id /\ a.chunk_index < b.chunk_index

\* Where sorted() puts chunks[i]: after the smaller keys and, the sort being
\* stable, after the equal keys that come earlier in the list.
SortedPosition(chunks, i) ==
    Cardinality({j \in 1 .. Len(chunks) :
                    \/ KeyLess(chunks[j], chunks[i])
                    \/ ~KeyLess(chunks[i], chunks[j]) /\ j < i}) + 1

UnsortedChunks(chunks) == chunks

\* sorted(chunks, key=lambda x: (x["document_id"], x["chunk_index"]))
SortedChunks(chunks) ==
    [p \in 1 .. Len(chunks) |->
        chunks[CHOOSE i \in 1 .. Len(chunks) : SortedPosition(chunks, i) = p]]

\* "\n---\n", "[Source]\n" and "\n\n" as characters.
BoundaryMarker == <<"\n", "-", "-", "-", "\n">>
SourceHeader == <<"[", "S", "o", "u", "r", "c", "e", "]", "\n">>
ChunkEnding == <<"\n", "\n">>

MarkerBeforeEveryChunk(sorted_chunks, i) == i > 1

\* Whether the loop appends the boundary marker before chunk i: the document
\* differs from current_doc, and current_doc is not None.
MarkerBefore(sorted_chunks, i) ==
    i > 1 /\ sorted_chunks[i].document_id # sorted_chunks[i - 1].document_id

\* Whether the loop appends the source header before chunk i.
HeaderBefore(sorted_chunks, i) ==
    i = 1 \/ sorted_chunks[i].document_id # sorted_chunks[i - 1].document_id

\* context_parts after the first n iterations of the loop (lines 135-144).
RECURSIVE ContextParts(_, _)
ContextParts(sorted_chunks, n) ==
    IF n = 0 THEN <<>>
    ELSE ContextParts(sorted_chunks, n - 1)
         \o (IF MarkerBefore(sorted_chunks, n) THEN <<BoundaryMarker>> ELSE <<>>)
         \o (IF HeaderBefore(sorted_chunks, n) THEN <<SourceHeader>> ELSE <<>>)
         \o <<sorted_chunks[n].content, ChunkEnding>>

\* "".join(parts)
RECURSIVE PyJoin(_, _)
PyJoin(parts, n) == IF n = 0 THEN <<>> ELSE PyJoin(parts, n - 1) \o parts[n]

\* The parts construct_context appends, and the string it returns.
ContextOfParts(parts) == [parts |-> parts, context |-> PyStrip(PyJoin(parts, Len(parts)))]
construct_context(chunks) ==
    IF Len(chunks) = 0 THEN [parts |-> <<>>, context |-> <<>>]
    ELSE ContextOfParts(ContextParts(SortedChunks(chunks), Len(chunks)))

\* A chunk dictionary of get_chunk_contents.
ChunkDict(document_id, chunk_index, content) ==
    [chunk_id |-> ChunkId(document_id, chunk_index), document_id |-> document_id,
     content |-> content, chunk_index |-> chunk_index]

\* The chunk records a context is assembled from: two chunks of each of two
\* documents, one of them with a line break inside.
ChunkPool ==
    {ChunkDict(DocIdsAscending[1], 0, <<"a">>), ChunkDict(DocIdsAscending[1], 1, <<"b", "\n", "c">>),
     ChunkDict(DocIdsAscending[2], 0, <<"d">>), ChunkDict(DocIdsAscending[2], 1, <<"e">>)}

InitContext ==
    /\ Constructed
    /\ call \in {Call("construct_context", chunks, FALSE, <<>>) :
                     chunks \in SeqsUpTo(ChunkPool, MaxChunkList)}

\* The call returns.
construct_context_call ==
    /\ call.fn = "construct_context" /\ ~call.done
    /\ call' = Call(call.fn, call.args, TRUE, construct_context(call.args))
    /\ UNCHANGED <<index, metadata, index_path, metadata_path, last, documents,
                   document_chunks, reply, loopVars, commits, response>>

NextContext == construct_context_call

SpecContext == InitContext /\ [][NextContext]_vars

----------------------------------------------------------------------------
(* Question answering: agents/qa_agent.py and api/ask.py.  SpecQA runs
   questions, each with the faults its steps can meet, against the index and
   the chunk table that uploads (some losing their chunk records) and resets
   leave. *)

\* The questions of POST /ask: one of whitespace, and two that embed differently.
Questions == {<<" ">>, <<"w">>, <<"w", "h">>}

\* The texts answer_question answers with.
NoInformationAnswer ==
    "I couldn't find any relevant information in the uploaded documents to answer your question."
NoContentAnswer ==
    "I found relevant chunks but couldn't retrieve their content. Please try again."
ApologyAnswer == "I apologize, but I encountered an error while generating the answer."
Completion == "<the completion of the model>"

\* retrieve_relevant_chunks: the ids of search, none if it raises.
RetrievedIds(found) == IF found.raised THEN <<>> ELSE found.chunk_ids
retrieve_relevant_chunks(question_embedding) ==
    RetrievedIds(search(index, metadata, question_embedding, TOP_K_RESULTS))

\* The dictionary get_chunk_contents makes of a row (lines 101-106).
DictOfRow(row) ==
    [chunk_id |-> row.chunk_id, document_id |-> row.document_id,
     content |-> row.content, chunk_index |-> row.chunk_index]

\* Whether the query of lines 96-98 finds a row.
HasRow(table, chunk_id) == \E row \in table : row.chunk_id = chunk_id

\* The dictionaries of the ids that have a row, in the order of the ids.
RowsOf(table, present) ==
    [i \in 1 .. Len(present) |-> DictOfRow(CHOOSE row \in table : row.chunk_id = present[i])]

GetChunkContentsAllOrNothing(table, chunk_ids, dbFails) ==
    IF dbFails \/ \E i \in 1 .. Len(chunk_ids) : ~HasRow(table, chunk_ids[i]) THEN <<>>
    ELSE RowsOf(table, chunk_ids)

\* get_chunk_contents: ids without a row are skipped; any exception gives [].
get_chunk_contents(table, chunk_ids, dbFails) ==
    IF dbFails THEN <<>>
    ELSE RowsOf(table, SelectSeq(chunk_ids, LAMBDA id : HasRow(table, id)))

GenerateAnswerRaises(llmFails) == [raised |-> llmFails, answer |-> Completion]

\* generate_answer: the completion, or the apology when the service raises.
generate_answer(llmFails) ==
    [raised |-> FALSE, answer |-> IF llmFails THEN ApologyAnswer ELSE Completion]

\* The orders in which a set of document ids can be iterated.
HashOrders ==
    {o \in [1 .. Cardinality(DocIds) -> DocIds] :
        \A i \in 1 .. Cardinality(DocIds), j \in 1 .. Cardinality(DocIds) : o[i] = o[j] => i = j}

\* list(set([chunk["document_id"] for chunk in chunks])), the set iterated in `order`.
source_docs(chunks, order) ==
    SelectSeq(order, LAMBDA d : \E i \in 1 .. Len(chunks) : chunks[i].document_id = d)

\* The return of the except clause (lines 230-235).
QAError == QAResult(FALSE, "", "QA error", <<>>, <<>>, <<>>, <<>>, FALSE, FALSE)

\* Steps 4 and 5 of answer_question and its return (lines 213-228).
AnswerStep(chunk_ids, chunks, g, order) ==
    IF g.raised THEN QAError
    ELSE QAResult(TRUE, g.answer, "", source_docs(chunks, order), chunk_ids, chunks,
                  construct_context(chunks).context, TRUE, TRUE)

\* Step 3 of answer_question and what follows (lines 202-228).
LookupStep(chunk_ids, chunks, llmFails, order) ==
    IF Len(chunks) = 0
    THEN QAResult(TRUE, NoContentAnswer, "", <<>>, chunk_ids, <<>>, <<>>, TRUE, FALSE)
    ELSE AnswerStep(chunk_ids, chunks, generate_answer(llmFails), order)

NoChunkIdsNever(chunk_ids) == FALSE

\* `not chunk_ids`
NoChunkIds(chunk_ids) == Len(chunk_ids) = 0

\* answer_question after step 2 gave chunk_ids (lines 194-228).
RetrievalStep(chunk_ids, dbFails, llmFails, order) ==
    IF NoChunkIds(chunk_ids)
    THEN QAResult(TRUE, NoInformationAnswer, "", <<>>, <<>>, <<>>, <<>>, FALSE, FALSE)
    ELSE LookupStep(chunk_ids, get_chunk_contents(document_chunks, chunk_ids, dbFails),
                    llmFails, order)

\* answer_question(question) from the current state; embedFails, dbFails and
\* llmFails are the faults of steps 1, 3 and 5.
answer_question(question, embedFails, dbFails, llmFails, order) ==
    IF embedFails THEN QAError
    ELSE RetrievalStep(retrieve_relevant_chunks(EmbedText(question)), dbFails, llmFails, order)

\* POST /ask with `question`.
ask_question(question, embedFails, dbFails, llmFails, order) ==
    /\ IF Len(PyStrip(question)) = 0
       THEN /\ response' = Response("ask", question, FALSE, FALSE, FALSE, NoResult, 400)
            /\ UNCHANGED last
       ELSE /\ \E r \in {answer_question(question, embedFails, dbFails, llmFails, order)} :
                   response' = Response("ask", question, embedFails, dbFails, llmFails, r,
                                        IF r.success THEN 200 ELSE 500)
            /\ last' = IF embedFails THEN last
                       ELSE Done("search", ~search(index, metadata, EmbedText(question),
                                                   TOP_K_RESULTS).raised)
    /\ UNCHANGED <<index, metadata, index_path, metadata_path, documents, document_chunks,
                   reply, loopVars, commits, call>>

NextQA ==
    \/ \E question \in Questions, embedFails \in BOOLEAN, dbFails \in BOOLEAN,
          llmFails \in BOOLEAN, order \in HashOrders :
          ask_question(question, embedFails, dbFails, llmFails, order)
    \/ \E name \in TextNames, document_id \in DocIds, dbFails \in BOOLEAN :
          upload_document(name, document_id, FALSE, "ok", dbFails)
    \/ reset_index("ok")

SpecQA == Init /\ [][NextQA]_vars

----------------------------------------------------------------------------
(* chunk_text on its own.  SpecChunk applies it to every short text over a
   letter, a full stop, a space and a line break, under every small
   chunk_size and every overlap below it. *)

MaxTextLen == 5     \* longest text given to chunk_text
MaxChunkSize == 3   \* largest chunk_size

Alphabet == {"a", ".", " ", "\n"}

\* The arguments of a chunk_text call: text, chunk_size, overlap.
ChunkArgs(text, chunk_size, overlap) ==
    [text |-> text, chunk_size |-> chunk_size, overlap |-> overlap]

InitChunk ==
    /\ Constructed
    /\ call \in {Call("chunk_text", ChunkArgs(text, chunk_size, overlap), FALSE,
                      [chunks |-> <<>>, terminates |-> FALSE]) :
                     text \in SeqsUpTo(Alphabet, MaxTextLen) \ {<<>>},
                     chunk_size \in 1 .. MaxChunkSize,
                     overlap \in 0 .. MaxChunkSize - 1}
    /\ call.args.overlap < call.args.chunk_size

\* The call is made: it returns its chunks, or (terminates = FALSE) never returns.
chunk_text_call ==
    /\ call.fn = "chunk_text" /\ ~call.done
    /\ call' = Call(call.fn, call.args, TRUE,
                    chunk_text(call.args.text, call.args.chunk_size, call.args.overlap))
    /\ UNCHANGED <<index, metadata, index_path, metadata_path, last, documents,
                   document_chunks, reply, loopVars, commits, response>>

NextChunk == chunk_text_call

SpecChunk == InitChunk /\ [][NextChunk]_vars

\* chunk_text under a configuration whose overlap is not below chunk_size.
InitOverlap ==
    /\ Constructed
    /\ call \in {Call("chunk_text", ChunkArgs(text, chunk_size, overlap), FALSE,
                      [chunks |-> <<>>, terminates |-> FALSE]) :
                     text \in SeqsUpTo(Alphabet, MaxTextLen) \ {<<>>},
                     chunk_size \in 1 .. MaxChunkSize,
                     overlap \in 1 .. MaxChunkSize + 1}
    /\ call.args.overlap >= call.args.chunk_size

SpecOverlap == InitOverlap /\ [][NextChunk]_vars

----------------------------------------------------------------------------
(* utils/cleaning.py and IngestionAgent.clean_extracted_text: the normalizer.
   SpecNormalize applies it to raw texts made of a few leading pieces (a page
   label, blanks, line breaks, a digit, a full stop, a control character)
   followed by five words, and then applies it again to what it returned. *)

MaxPieces == 4      \* most pieces before the words of a raw text

\* The character classes of the regular expressions: \d, [.!?], and the
\* class of line 25, of which "^@" stands for the character \x00.  \s is
\* Whitespace.
Digits == {"0", "1", "2", "3", "4", "5", "6", "7", "8", "9"}
Punctuation == {".", "!", "?"}
ControlChars == {"^@"}

\* An Optional[str]: None, or a text.
NoText == [meaningful |-> FALSE, text |-> <<>>]
SomeText(text) == [meaningful |-> TRUE, text |-> text]

\* The first position from p on whose character is outside class, or
\* len(text) + 1: where a greedy class* starting at p stops.
RunEnd(text, class, p) ==
    IF \A i \in p .. Len(text) : text[i] \in class THEN Len(text) + 1
    ELSE CHOOSE i \in p .. Len(text) :
             text[i] \notin class /\ \A j \in p .. i - 1 : text[j] \in class

\* The last position matched by \n\s*\d+\s*\n starting at p, or 0: greedy \s*
\* and \d+ take their whole runs, and the second \s* gives back up to the
\* last line break of its run.
PageLineEnd(text, p) ==
    IF p > Len(text) \/ text[p] # "\n" THEN 0
    ELSE LET j == RunEnd(text, Whitespace, p + 1)
             k == RunEnd(text, Digits, j)
             m == RunEnd(text, Whitespace, k)
             breaks == {i \in k .. m - 1 : text[i] = "\n"}
         IN  IF k = j \/ breaks = {} THEN 0
             ELSE CHOOSE i \in breaks : \A b \in breaks : b <= i

\* The last position matched by `Page \d+` (IGNORECASE) starting at p, or 0.
PageLabelEnd(text, p) ==
    IF p + 5 > Len(text) THEN 0
    ELSE IF /\ text[p] \in {"P", "p"} /\ text[p + 1] \in {"a", "A"}
            /\ text[p + 2] \in {"g", "G"} /\ text[p + 3] \in {"e", "E"}
            /\ text[p + 4] = " " /\ text[p + 5] \in Digits
         THEN RunEnd(text, Digits, p + 5) - 1
         ELSE 0

\* re.sub(r'\n\s*\d+\s*\n', '\n', text) from position p: leftmost matches,
\* none overlapping the one before.
RECURSIVE SubPageLines(_, _)
SubPageLines(text, p) ==
    IF p > Len(text) THEN <<>>
    ELSE IF PageLineEnd(text, p) > 0
    THEN <<"\n">> \o SubPageLines(text, PageLineEnd(text, p) + 1)
    ELSE <<text[p]>> \o SubPageLines(text, p + 1)

\* re.sub(r'Page \d+', '', text, flags=re.IGNORECASE) from position p.
RECURSIVE SubPageLabels(_, _)
SubPageLabels(text, p) ==
    IF p > Len(text) THEN <<>>
    ELSE IF PageLabelEnd(text, p) > 0
    THEN SubPageLabels(text, PageLabelEnd(text, p) + 1)
    ELSE <<text[p]>> \o SubPageLabels(text, p + 1)

remove_page_numbers(text) == SubPageLabels(SubPageLines(text, 1), 1)

\* re.sub(r'\s+', ' ', text)
CollapseWhitespace(text) ==
    LET kept == SelectSeq([i \in 1 .. Len(text) |-> i], LAMBDA i :
                    ~(text[i] \in Whitespace /\ i > 1 /\ text[i - 1] \in Whitespace))
    IN  [j \in 1 .. Len(kept) |->
            IF text[kept[j]] \in Whitespace THEN " " ELSE text[kept[j]]]

\* re.sub(r'[\x00-\x08\x0b-\x0c\x0e-\x1f\x7f-\x9f]', '', text)
RemoveControlChars(text) == SelectSeq(text, LAMBDA c : c \notin ControlChars)

\* re.sub(r'([.!?]){2,}', r'\1', text): a run of two or more is replaced by
\* its last character.
CollapsePunctuation(text) ==
    LET kept == SelectSeq([i \in 1 .. Len(text) |-> i], LAMBDA i :
                    ~(text[i] \in Punctuation /\ i < Len(text)
                        /\ text[i + 1] \in Punctuation))
    IN  [j \in 1 .. Len(kept) |-> text[kept[j]]]

\* clean_text.  The replace calls of lines 28-29 leave a text without quote
\* characters as it is.
clean_text(text) ==
    IF Len(text) = 0 THEN <<>>
    ELSE PyStrip(CollapsePunctuation(RemoveControlChars(CollapseWhitespace(text))))

\* extract_meaningful_text(text)
extract_meaningful_text(text) ==
    IF Len(clean_text(text)) < min_length THEN NoText
    ELSE IF PySplitLen(clean_text(text)) < MinWords THEN NoText
    ELSE SomeText(clean_text(text))

\* IngestionAgent.clean_extracted_text: the normalizer.
clean_extracted_text(text) ==
    IF Len(text) = 0 THEN NoText
    ELSE extract_meaningful_text(clean_text(remove_page_numbers(text)))

\* What the raw texts start with, and the words they go on with.
Pieces == {<<"P", "a", "g", "e">>, <<" ">>, <<"\n">>, <<"7">>, <<".">>, <<"^@">>}
Words == TextOf("short")

RECURSIVE Concat(_)
Concat(pieces) ==
    IF Len(pieces) = 0 THEN <<>> ELSE pieces[1] \o Concat(Tail(pieces))

RawTexts == {Concat(pieces) \o Words : pieces \in SeqsUpTo(Pieces, MaxPieces)}

InitNormalize ==
    /\ Constructed
    /\ call \in {Call("clean_extracted_text", [text |-> text], FALSE, <<>>) :
                     text \in RawTexts}

\* The normalizer is applied to the raw text.
clean_extracted_text_call ==
    /\ call.fn = "clean_extracted_text" /\ ~call.done
    /\ call' = Call(call.fn, call.args, TRUE, <<clean_extracted_text(call.args.text)>>)
    /\ UNCHANGED <<index, metadata, index_path, metadata_path, last, documents,
                   document_chunks, reply, loopVars, commits, response>>

\* The normalizer is applied to the text it returned.
clean_extracted_text_again ==
    /\ call.fn = "clean_extracted_text" /\ call.done
    /\ Len(call.result) = 1 /\ call.result[1].meaningful
    /\ call' = Call(call.fn, call.args, TRUE,
                    Append(call.result, clean_extracted_text(call.result[1].text)))
    /\ UNCHANGED <<index, metadata, index_path, metadata_path, last, documents,
                   document_chunks, reply, loopVars, commits, response>>

NextNormalize == clean_extracted_text_call \/ clean_extracted_text_again

SpecNormalize == InitNormalize /\ [][NextNormalize]_vars

----------------------------------------------------------------------------
(* chunk_text under the settings, on normalized texts of 1200 characters.
   SpecScenario draws the texts from letters with full stops at up to
   MaxTerminators of the positions around the ends of the look-back windows,
   blanks between five words and at most one more blank at a window edge,
   and keeps those the normalizer leaves as they are. *)

MaxTerminators == 2     \* most full stops in a text

\* 0-based positions of the full stops: around 400 and 500 (the look-back of
\* the first window), around 751, 850 and 950 (that of the second, which
\* starts between 351 and 450), and the last character.
TerminatorPositions == {399, 400, 401, 450, 499, 500, 750, 751, 752, 850, 851, 949, 950, 1199}

\* 0-based positions of the blanks every text has, and of the one it may have
\* at the start or the end of a window.
WordBreaks == {100, 200, 300, 600}
EdgeBlanks == {351, 449, 498, 702, 900, 948}

ScenarioText(terminators, blanks) ==
    [i \in 1 .. 1200 |-> IF i - 1 \in terminators THEN "."
                         ELSE IF i - 1 \in blanks THEN " " ELSE "a"]

\* A text the normalizer returns as it is: neither pattern of
\* remove_page_numbers matches anywhere, and clean_text changes nothing.
IsNormalized(text) ==
    /\ \A p \in {q \in 1 .. Len(text) : text[q] \in {"\n", "P", "p"}} :
          PageLineEnd(text, p) = 0 /\ PageLabelEnd(text, p) = 0
    /\ clean_text(text) = text
    /\ IsMeaningful(text)

InitScenario ==
    /\ Constructed
    /\ call \in {Call("chunk_text",
                      ChunkArgs(ScenarioText(terminators, WordBreaks \cup edge),
                                CHUNK_SIZE, CHUNK_OVERLAP),
                      FALSE, [chunks |-> <<>>, terminates |-> FALSE]) :
                     terminators \in {t \in SUBSET TerminatorPositions :
                                         Cardinality(t) <= MaxTerminators},
                     edge \in {{}} \cup {{b} : b \in EdgeBlanks}}
    /\ IsNormalized(call.args.text)

SpecScenario == InitScenario /\ [][NextChunk]_vars

----------------------------------------------------------------------------
(* Claims about the Vector Index, checked under Spec *)

IsAdd(l) == l.op = "add"
IsLoad(l) == l.op \in {"load", "init"}

\* The positions of xb holding the vector v.
PositionsOf(xb, v) == {p \in 1 .. Len(xb) : xb[p] = v}

\* C1: in every state reachable by create/add/save/load/reset the index holds
\* as many vectors as the id-mapping holds chunk ids (position i of both
\* belonging to the same chunk presupposes it).
C1_ParallelLengths == Len(index) = Len(metadata)

\* C2: add_vectors is all-or-nothing: whether it returns or raises, either
\* both sequences were extended by the same whole batch or neither changed.
C2_AddAllOrNothing ==
    [][IsAdd(last') =>
          \/ index' = index /\ metadata' = metadata
          \/ \E n \in 1 .. MaxBatch :
                /\ Len(index') = Len(index) + n
                /\ Len(metadata') = Len(metadata) + n
                /\ SubSeq(index', 1, Len(index)) = index
                /\ SubSeq(metadata', 1, Len(metadata)) = metadata]_vars

\* C4: on a non-empty index of n vectors search(q, k) returns exactly
\* min(k, n) (distance, chunk_id) results, in ascending distance, each the
\* distance and id of one stored vector, and no vector left out is strictly
\* closer to q than one returned.
C4_SearchTopK ==
    \A q \in RawVecs, k \in 1 .. MaxK :
        Len(index) > 0 =>
            LET r == search(index, metadata, q, k)
                m == Min(k, Len(index))
                q32 == AsFloat32Vec(q)
            IN  /\ ~r.raised
                /\ Len(r.distances) = m
                /\ Len(r.chunk_ids) = m
                /\ \A i \in 1 .. m - 1 : r.distances[i] <= r.distances[i + 1]
                /\ \E pick \in [1 .. m -> 1 .. Len(index)] :
                      /\ \A a, b \in 1 .. m : a # b => pick[a] # pick[b]
                      /\ \A i \in 1 .. m :
                            /\ r.distances[i] = L2Sqr(index[pick[i]], q32)
                            /\ pick[i] <= Len(metadata)
                            /\ r.chunk_ids[i] = metadata[pick[i]]
                      /\ \A p \in 1 .. Len(index) :
                            (\A i \in 1 .. m : pick[i] # p) =>
                                \A i \in 1 .. m : L2Sqr(index[p], q32) >= r.distances[i]

\* C5: search on an index of zero vectors returns the empty result and does
\* not raise, for every query vector (of any dimension) and every k.
C5_EmptySearch ==
    \A q \in Queries, k \in 0 .. MaxK :
        Len(index) = 0 =>
            search(index, metadata, q, k) =
                [raised |-> FALSE, distances |-> <<>>, chunk_ids |-> <<>>]

C5_Witness == last.op = "search" /\ last.ok /\ Len(index) = 0

C7_ResetPersistsEmpty ==
    (last.op = "reset" /\ last.ok) =>
        /\ index = <<>> /\ metadata = <<>>
        /\ index_path = File(<<>>) /\ metadata_path = File(<<>>)
        /\ LoadResult(index_path, metadata_path) = [index |-> <<>>, metadata |-> <<>>]
        /\ InitResult(index_path, metadata_path) = [index |-> <<>>, metadata |-> <<>>]

C7_Witness == last.op = "reset" /\ last.ok /\ index = <<>> /\ index_path = File(<<>>)

\* The position of the j-th vector the last add appended, and the position
\* of the j-th id it appended.
AddedVector(j) == Len(index) - last.n + j
AddedId(j) == Len(metadata) - last.m + j

\* The last add appended as many ids as vectors to sequences of one length.
AddedAligned == last.n = last.m /\ Len(index) = Len(metadata)

\* C8, as claimed: right after an add, a search with a just-added vector as
\* query and k >= 1 returns that vector's own chunk_id first, at distance 0,
\* whatever the index held before.  (Stated for adds that keep the two
\* sequences the same length.)
C8_OwnIdFirst ==
    (IsAdd(last) /\ last.ok /\ AddedAligned) =>
        \A j \in 1 .. last.n, k \in 1 .. MaxK, q \in RawVecs :
            AsFloat32Vec(q) = index[AddedVector(j)] =>
                LET r == search(index, metadata, q, k)
                IN  /\ ~r.raised
                    /\ Len(r.chunk_ids) >= 1
                    /\ r.distances[1] = 0
                    /\ r.chunk_ids[1] = metadata[AddedId(j)]

\* C8, amended: right after an add, a search with a just-added vector as
\* query and k >= 1 returns distance 0 first; the first chunk id is the
\* id-mapping entry at the position of a stored vector equal to the query
\* (whenever all those positions have an entry), so it is the just-added
\* vector's own chunk_id when no other stored vector equals it and its id was
\* stored at its position.
C8_EqualVectorFirst ==
    (IsAdd(last) /\ last.ok) =>
        \A j \in 1 .. last.n, k \in 1 .. MaxK, q \in RawVecs :
            AsFloat32Vec(q) = index[AddedVector(j)] =>
                LET r == search(index, metadata, q, k)
                    same == PositionsOf(index, AsFloat32Vec(q))
                IN  /\ ~r.raised
                    /\ r.distances[1] = 0
                    /\ (\A p \in same : p <= Len(metadata)) =>
                          \E p \in same : r.chunk_ids[1] = metadata[p]
                    /\ (same = {AddedVector(j)} /\ AddedAligned) =>
                          r.chunk_ids[1] = metadata[AddedId(j)]

\* An add has just put a vector equal to an older one under another id.
C8_Witness ==
    /\ IsAdd(last) /\ last.ok
    /\ Len(index) = 2 /\ Len(metadata) = 2
    /\ index[1] = index[2]
    /\ metadata[1] # metadata[2]

----------------------------------------------------------------------------
(* Claims about requests in flight, checked under SpecLoop *)

\* The requests inside an add, a save or a search.
InService(r) == pc[r] \in AddSteps \cup SaveSteps \cup SearchSteps

\* C3: with uploads and questions in flight together, the calls on the shared
\* Vector Index are serialized: no two requests are inside an add, a save or a
\* search at once, and while an add has extended the vectors but not yet the
\* chunk ids, no other request is at or inside a search or a save.
C3_Serialized ==
    \A r \in Requests : \A r2 \in Requests \ {r} :
        /\ ~(InService(r) /\ InService(r2))
        /\ pc[r] = "metadata_extend" =>
               pc[r2] \notin {"search", "write_index"} \cup SaveSteps \cup SearchSteps

\* An add is half done while a question and another upload wait their turn.
C3_Witness ==
    \E r \in Uploads : \E a \in Asks : \E r2 \in Uploads \ {r} :
        /\ pc[r] = "metadata_extend"
        /\ Len(index) > Len(metadata)
        /\ pc[a] = "pending"
        /\ pc[r2] = "file_read"

----------------------------------------------------------------------------
(* Claims about the indexing pipeline, checked under SpecDoc *)

\* Whether the text of the last call chunks to nothing.
ZeroChunks(rep) ==
    rep.text # "none" /\ Len(chunk_document_text(TextOf(rep.text), rep.doc)) = 0

\* C9: index_document on a text that yields zero chunks fails with the
\* outcome of an empty document ("Failed to create chunks"), calls no
\* embedding, leaves the Vector Index and its two files as they were, and
\* writes no chunk record.
C9_ZeroChunksNoEffect ==
    [][ZeroChunks(reply') =>
            /\ ~reply'.success
            /\ reply'.error = "Failed to create chunks"
            /\ ~reply'.embedded
            /\ UNCHANGED <<index, metadata, index_path, metadata_path, document_chunks>>
       ]_vars

\* index_document has returned for a text of whitespace, with vectors of an
\* earlier document in the index.
C9_Witness ==
    /\ reply.op = "index_document"
    /\ reply.text = "blank"
    /\ reply.error = "Failed to create chunks"
    /\ Len(index) > 0
    /\ index_path.st = "ok"

\* C10: when step 4 of index_document fails after step 3 added and saved the
\* vectors, the vectors and chunk ids of the document are the tail of the
\* index in memory and on disk, index_document reports failure, the table
\* holds no chunk record of the document, and an upload leaves the document
\* failed and answers 500.
C10_MetadataFailureKeepsVectors ==
    reply.error = "Failed to store metadata" =>
        LET chunks == generate_embeddings(chunk_document_text(TextOf(reply.text), reply.doc))
            n == Len(chunks)
        IN  /\ ~reply.success
            /\ n > 0 /\ Len(index) >= n /\ Len(metadata) >= n
            /\ \A i \in 1 .. n :
                  /\ index[Len(index) - n + i] = AsFloat32Vec(chunks[i].embedding)
                  /\ metadata[Len(metadata) - n + i] = chunks[i].chunk_id
            /\ index_path = File(index)
            /\ metadata_path = File(metadata)
            /\ \A c \in document_chunks : c.document_id # reply.doc
            /\ reply.op = "upload" => documents[reply.doc] = "failed" /\ reply.http = 500

\* An upload of the two-chunk text has met a failing metadata write.
C10_Witness ==
    /\ reply.op = "upload"
    /\ reply.text = "long"
    /\ reply.error = "Failed to store metadata"
    /\ documents[reply.doc] = "failed"

\* C11: when the batch embedding call fails, index_document stops before
\* step 3: the Vector Index in memory, its two files and the chunk table are
\* as they were, the call reports failure, and an upload answers 5xx and
\* leaves the document failed.
C11_EmbeddingFailureAborts ==
    [][reply'.error = "Indexing error" =>
            /\ ~reply'.success
            /\ reply'.embedded
            /\ UNCHANGED <<index, metadata, index_path, metadata_path, document_chunks>>
            /\ reply'.op = "upload" =>
                   reply'.http >= 500 /\ documents'[reply'.doc] = "failed"
       ]_vars

\* An upload has met a failing embedding call, with vectors of an earlier
\* document in the index.
C11_Witness ==
    /\ reply.op = "upload"
    /\ reply.error = "Indexing error"
    /\ documents[reply.doc] = "failed"
    /\ Len(index) > 0
    /\ index_path.st = "ok"

\* C12: the row of a document starts as processing, its status changes at
\* most once after that, to indexed or to failed, and the status of the row
\* is the last one committed: an indexed or failed document stays so.
C12_StatusTransitions ==
    \A d \in DocIds :
        /\ commits[d] \in {<<>>, <<"processing">>, <<"processing", "indexed">>,
                           <<"processing", "failed">>}
        /\ documents[d] = IF commits[d] = <<>> THEN "none" ELSE commits[d][Len(commits[d])]

\* One upload has ended indexed and another, whose indexing failed, failed.
C12_Witness ==
    \E d \in DocIds : \E e \in DocIds :
        /\ commits[d] = <<"processing", "indexed">>
        /\ commits[e] = <<"processing", "failed">>
        /\ reply.op = "upload" /\ reply.doc = e /\ reply.http = 500

----------------------------------------------------------------------------
(* Claims about context assembly, checked under SpecContext *)

\* The content parts of a context, in order, each as the chunk record it is
\* the content of (the contents of ChunkPool are distinct).
ContentParts(parts) ==
    SelectSeq(parts, LAMBDA part : \E c \in ChunkPool : c.content = part)
ChunkOfPart(part) == CHOOSE c \in ChunkPool : c.content = part

\* The same list in another order.
Reordered(chunks, f) == [i \in 1 .. Len(chunks) |-> chunks[f[i]]]

\* C18: the context lists the chunks of one document contiguously, documents
\* in ascending document_id order and the chunks of a document in ascending
\* chunk_index order; every chunk given is listed; the result is the same for
\* every order of the input; and no chunks give the empty string.
C18_ContextGroupedAndSorted ==
    (call.fn = "construct_context" /\ call.done) =>
        LET cs == ContentParts(call.result.parts)
        IN  /\ Len(cs) = Len(call.args)
            /\ \A c \in ChunkPool :
                  Cardinality({i \in 1 .. Len(cs) : ChunkOfPart(cs[i]) = c})
                      = Cardinality({i \in 1 .. Len(call.args) : call.args[i] = c})
            /\ \A i \in 1 .. Len(cs) : \A j \in i + 1 .. Len(cs) :
                  ~KeyLess(ChunkOfPart(cs[j]), ChunkOfPart(cs[i]))
            /\ \A f \in Permutations(1 .. Len(call.args)) :
                  construct_context(Reordered(call.args, f)) = call.result
            /\ Len(call.args) = 0 => call.result.context = <<>>

\* A context assembled from chunks of two documents given interleaved and
\* against their order.
C18_Witness ==
    /\ call.fn = "construct_context" /\ call.done
    /\ Len(call.args) = 3
    /\ call.args[1].document_id = DocIdsAscending[1] /\ call.args[1].chunk_index = 1
    /\ call.args[2].document_id = DocIdsAscending[2]
    /\ call.args[3].document_id = DocIdsAscending[1] /\ call.args[3].chunk_index = 0

\* How often the boundary marker occurs in a string.
MarkersIn(context) ==
    Cardinality({i \in 1 .. Len(context) - Len(BoundaryMarker) + 1 :
                    SubSeq(context, i, i + Len(BoundaryMarker) - 1) = BoundaryMarker})

\* C19: the boundary marker is put exactly between the last chunk of one
\* document and the first of the next, never before the first chunk, so a
\* context of chunks of d documents holds d - 1 markers.
C19_MarkersBetweenDocuments ==
    (call.fn = "construct_context" /\ call.done /\ Len(call.args) > 0) =>
        LET parts == call.result.parts
            d == Cardinality({call.args[i].document_id : i \in 1 .. Len(call.args)})
        IN  /\ parts[1] # BoundaryMarker
            /\ Cardinality({p \in 1 .. Len(parts) : parts[p] = BoundaryMarker}) = d - 1
            /\ MarkersIn(call.result.context) = d - 1
            /\ \A p \in 2 .. Len(parts) - 2 :
                  parts[p] = BoundaryMarker <=>
                      /\ parts[p - 1] = ChunkEnding
                      /\ parts[p + 1] = SourceHeader
                      /\ ChunkOfPart(parts[p - 2]).document_id
                             # ChunkOfPart(parts[p + 2]).document_id

\* A context of three chunks of two documents: one marker.
C19_Witness ==
    /\ call.fn = "construct_context" /\ call.done
    /\ Len(call.args) = 3
    /\ Cardinality({call.args[i].document_id : i \in 1 .. Len(call.args)}) = 2
    /\ MarkersIn(call.result.context) = 1

----------------------------------------------------------------------------
(* Claims about question answering, checked under SpecQA *)

\* A step that is a POST /ask whose question reaches answer_question.
Asked == response' # response /\ response'.http # 400

\* The ids search gives the embedded question in the current state.
SearchedIds(question) ==
    RetrievedIds(search(index, metadata, EmbedText(question), TOP_K_RESULTS))

\* The document ids of a list of chunk dictionaries.
DocsOf(chunks) == {chunks[i].document_id : i \in 1 .. Len(chunks)}

\* C13: a question asked while the index is empty is answered with success,
\* the no-relevant-information text, no sources and num_sources = 0, and
\* neither the chunk table nor the completion service is called.
C13_EmptyIndexAnswer ==
    [][(Asked /\ Len(index) = 0 /\ ~response'.embedFails) =>
            /\ response'.result.success
            /\ response'.result.answer = NoInformationAnswer
            /\ response'.result.sources = <<>>
            /\ response'.result.num_sources = 0
            /\ ~response'.result.looked_up
            /\ ~response'.result.completed
            /\ response'.http = 200
       ]_vars

\* A question has been answered after a reset emptied an index that held the
\* vectors of an indexed document.
C13_Witness ==
    /\ response.op = "ask" /\ response.http = 200
    /\ response.result.answer = NoInformationAnswer
    /\ last.op = "search"
    /\ Len(index) = 0 /\ index_path = File(<<>>)
    /\ \E d \in DocIds : documents[d] = "indexed"

\* C14: the ids of search that have no chunk record are skipped: the request
\* succeeds, the chunks are those of the ids that have a record, in the order
\* of the ids, the context and the sources are built from them, and when no
\* id has a record the answer is the could-not-retrieve text with no sources.
C14_MissingRecordsSkipped ==
    [][(Asked /\ ~response'.embedFails /\ ~response'.dbFails
            /\ Len(SearchedIds(response'.question)) > 0) =>
            LET ids == SearchedIds(response'.question)
                have == SelectSeq(ids, LAMBDA id : \E row \in document_chunks : row.chunk_id = id)
                res == response'.result
            IN  /\ res.success /\ response'.http = 200
                /\ res.looked_up
                /\ [i \in 1 .. Len(res.chunks) |-> res.chunks[i].chunk_id] = have
                /\ \A i \in 1 .. Len(res.chunks) :
                      \E row \in document_chunks :
                          /\ row.chunk_id = res.chunks[i].chunk_id
                          /\ row.document_id = res.chunks[i].document_id
                          /\ row.content = res.chunks[i].content
                /\ Len(have) = 0 =>
                      /\ res.answer = NoContentAnswer
                      /\ res.sources = <<>> /\ res.num_sources = 0
                      /\ ~res.completed
                /\ Len(have) > 0 =>
                      /\ {res.sources[i] : i \in 1 .. Len(res.sources)} = DocsOf(res.chunks)
                      /\ res.context = construct_context(res.chunks).context
                      /\ res.completed
       ]_vars

\* A question has retrieved ids of two documents, one of which lost its chunk
\* records, and has been answered from the other.
C14_Witness ==
    /\ response.op = "ask" /\ response.result.success
    /\ Len(response.result.chunks) > 0
    /\ Len(response.result.chunks) < Len(response.result.chunk_ids)
    /\ response.result.num_sources = 1

\* C15: when the completion service fails for a question whose chunks were
\* retrieved, answer_question returns success with the apology text, the
\* sources are the documents of the retrieved chunks, num_sources counts them,
\* and POST /ask answers 200.
C15_CompletionFailureApology ==
    [][(Asked /\ response'.llmFails /\ ~response'.embedFails /\ ~response'.dbFails
            /\ \E i \in 1 .. Len(SearchedIds(response'.question)) :
                   HasRow(document_chunks, SearchedIds(response'.question)[i])) =>
            LET ids == SearchedIds(response'.question)
                docs == {row.document_id : row \in
                            {r \in document_chunks : \E i \in 1 .. Len(ids) : r.chunk_id = ids[i]}}
                res == response'.result
            IN  /\ res.success
                /\ res.answer = ApologyAnswer
                /\ {res.sources[i] : i \in 1 .. Len(res.sources)} = docs
                /\ res.num_sources = Cardinality(docs)
                /\ response'.http = 200
       ]_vars

\* The completion service has failed for a question with chunks of two documents.
C15_Witness ==
    /\ response.op = "ask" /\ response.llmFails
    /\ response.result.answer = ApologyAnswer
    /\ response.result.num_sources = 2

\* C16: when embedding the question fails, answer_question returns success
\* with a canned answer and POST /ask does not answer with an error status.
C16_EmbeddingFailureSwallowed ==
    (response.op = "ask" /\ response.embedFails) =>
        /\ response.result.success
        /\ response.result.answer # ""
        /\ response.http < 400

\* The first positions at which the documents appear in a list of chunks.
FirstOf(chunks, d) == CHOOSE i \in 1 .. Len(chunks) :
    chunks[i].document_id = d /\ \A j \in 1 .. i - 1 : chunks[j].document_id # d

\* C17: the sources of a successful answer hold each contributing document
\* once, num_sources is their number, and they are in the order in which the
\* documents first appear in the chunks sorted by (document_id, chunk_index).
C17_SourcesOrdered ==
    (response.op = "ask" /\ response.result.success /\ Len(response.result.chunks) > 0) =>
        LET src == response.result.sources
            sorted == SortedChunks(response.result.chunks)
        IN  /\ {src[i] : i \in 1 .. Len(src)} = DocsOf(response.result.chunks)
            /\ Len(src) = Cardinality(DocsOf(response.result.chunks))
            /\ response.result.num_sources = Len(src)
            /\ \A i \in 1 .. Len(src) : \A j \in i + 1 .. Len(src) :
                  FirstOf(sorted, src[i]) < FirstOf(sorted, src[j])

----------------------------------------------------------------------------
(* Claims about chunk_text, checked under SpecChunk *)

\* Whether chunks i, i + 1, ... lie in the text at offsets that do not go
\* back from `prev` and leave no character after `covered` out, up to the end
\* of the text.
RECURSIVE Reconstructs(_, _, _, _, _)
Reconstructs(text, chunks, i, prev, covered) ==
    IF i > Len(chunks) THEN covered = Len(text)
    ELSE \E s \in prev .. covered :
            /\ s + Len(chunks[i]) <= Len(text)
            /\ SubSeq(text, s + 1, s + Len(chunks[i])) = chunks[i]
            /\ Reconstructs(text, chunks, i + 1, s, Max(covered, s + Len(chunks[i])))

\* C20: for a non-empty text and overlap < chunk_size, chunk_text returns
\* chunks none of which is empty, which lie in the text in order, and which
\* together hold every character of the text.
C20_ChunksReconstructText ==
    (call.fn = "chunk_text" /\ call.done) =>
        /\ call.result.terminates
        /\ \A i \in 1 .. Len(call.result.chunks) : Len(call.result.chunks[i]) > 0
        /\ Reconstructs(call.args.text, call.result.chunks, 1, 0, 0)

----------------------------------------------------------------------------
(* Claims about chunk_text under overlap >= chunk_size, checked under SpecOverlap *)

\* C21: chunk_text called with overlap >= chunk_size returns, whatever the
\* text: the configuration is rejected or clamped and the loop always ends.
C21_MisconfiguredOverlapTerminates ==
    (call.fn = "chunk_text" /\ call.done /\ call.args.overlap >= call.args.chunk_size) =>
        call.result.terminates

----------------------------------------------------------------------------
(* Claims about the normalizer, checked under SpecNormalize *)

\* C23: the normalizer is idempotent on accepted input: applied to a text it
\* returned, it returns that text again.
C23_NormalizerIdempotent ==
    (call.fn = "clean_extracted_text" /\ Len(call.result) = 2) =>
        call.result[2] = call.result[1]

----------------------------------------------------------------------------
(* Claims about chunk_text under the settings, checked under SpecScenario *)

\* C22: a normalized text of exactly 1200 characters, chunked with
\* chunk_size = 500 and overlap = 50, gives exactly 3 chunks wherever its
\* sentence terminators fall.
C22_ScenarioThreeChunks ==
    (/\ call.fn = "chunk_text" /\ call.done
     /\ Len(call.args.text) = 1200
     /\ call.args.chunk_size = CHUNK_SIZE /\ call.args.overlap = CHUNK_OVERLAP) =>
        /\ call.result.terminates
        /\ Len(call.result.chunks) = 3

\* A text whose first two windows were both cut back as far as the look-back
\* allows has been chunked.
C22_Witness ==
    /\ call.fn = "chunk_text" /\ call.done
    /\ Len(call.args.text) = 1200
    /\ Len(call.result.chunks) = 3
    /\ Len(call.result.chunks[1]) = CHUNK_SIZE - BoundaryWindow + 1
    /\ Len(call.result.chunks[2]) = CHUNK_SIZE - BoundaryWindow + 1

----------------------------------------------------------------------------
(* Claims about chunk_text with overlap < chunk_size, checked under SpecChunk *)

\* The number of characters of the text that two spans share.
SharedLength(a, b) == Max(0, Min(a.to, b.to) - Max(a.from, b.from))

\* C24: two consecutive chunks of a chunk_text call with overlap < chunk_size
\* share a region of the text of at least min(overlap, length of the earlier
\* chunk) characters.
C24_ConsecutiveChunksOverlap ==
    (/\ call.fn = "chunk_text" /\ call.done /\ call.result.terminates
     /\ call.args.overlap < call.args.chunk_size) =>
        LET spans == chunk_spans(call.args.text, call.args.chunk_size, call.args.overlap)
        IN  \A i \in 1 .. Len(spans) - 1 :
                SharedLength(spans[i], spans[i + 1])
                    >= Min(call.args.overlap, Len(call.result.chunks[i]))

\* C28: with 0 <= overlap < chunk_size the cursor of chunk_text is larger
\* after every loop iteration than before it, and chunk_text returns.
C28_CursorAdvances ==
    (/\ call.fn = "chunk_text" /\ call.done
     /\ call.args.overlap < call.args.chunk_size) =>
        /\ \A i \in 1 .. Len(chunk_windows(call.args.text, call.args.chunk_size,
                                           call.args.overlap)) :
              NextStart(call.args.text, call.args.chunk_size, call.args.overlap,
                        chunk_windows(call.args.text, call.args.chunk_size,
                                      call.args.overlap)[i].start)
                  > chunk_windows(call.args.text, call.args.chunk_size,
                                  call.args.overlap)[i].start
        /\ call.result.terminates

----------------------------------------------------------------------------
(* Claims about what indexing leaves behind, checked under SpecDoc *)

\* C25: after a successful index_document every chunk record of the document
\* carries a vector position, and the id-mapping holds the chunk's id at that
\* position.
C25_RecordsCarryVectorPosition ==
    (reply.text # "none" /\ reply.success) =>
        /\ \E row \in document_chunks : row.document_id = reply.doc
        /\ \A row \in document_chunks :
              row.document_id = reply.doc =>
                  /\ row.embedding_index # None
                  /\ row.embedding_index \in 0 .. Len(metadata) - 1
                  /\ metadata[row.embedding_index + 1] = row.chunk_id

\* What a new process would load from the two files.
Persisted == InitResult(index_path, metadata_path)

\* C27: once index_document has returned, with success or with a failure, a
\* restart would load exactly the vectors and chunk ids that are in memory.
C27_PersistedEqualsMemory ==
    reply.text # "none" =>
        /\ Persisted.index = index
        /\ Persisted.metadata = metadata

----------------------------------------------------------------------------
(* Claims about the two files, checked under SpecDisk *)

\* Whether a load of the two files gives as many chunk ids as vectors.
LoadsInStep(ifile, mfile) ==
    Len(LoadResult(ifile, mfile).index) = Len(LoadResult(ifile, mfile).metadata)

\* C26: after any save, also one that fails between writing the index file
\* and writing the id-mapping file, a load of the two files gives as many
\* chunk ids as vectors: a save made while the sequences in memory have the
\* same length, over files that load in step, leaves files that load in step.
C26_PersistedLengthsAgree ==
    [][(/\ last'.op \in {"save", "reset"}
        /\ Len(index') = Len(metadata')
        /\ LoadsInStep(index_path, metadata_path)) =>
            LoadsInStep(index_path', metadata_path')
       ]_vars

----------------------------------------------------------------------------
(* Claims about search results, checked under Spec *)

\* C30: in every state in which a search has returned, and for every query,
\* search returns as many chunk ids as distances, and the i-th chunk id is
\* the id-mapping entry at the i-th position reported by the index.
C30_SearchResultsAligned ==
    (last.op = "search" /\ last.ok) =>
        \A q \in RawVecs, k \in 1 .. MaxK :
            LET r == search(index, metadata, q, k)
                nn == FlatL2Search(index, AsFloat32Vec(q), Min(k, Len(index)))
            IN  (Len(index) > 0 /\ ~r.raised) =>
                    /\ Len(r.chunk_ids) = Len(r.distances)
                    /\ \A i \in 1 .. Len(r.chunk_ids) :
                          /\ nn.I[i] \in 0 .. Len(metadata) - 1
                          /\ r.chunk_ids[i] = metadata[nn.I[i] + 1]

----------------------------------------------------------------------------
(* Claims about the states uploads reach, checked under SpecUpload *)

\* The chunk records of a document, and its chunk ids in the id-mapping.
RowsOfDocument(d) == {row \in document_chunks : row.document_id = d}
MappedIdsOf(d) ==
    {metadata[i] : i \in {j \in 1 .. Len(metadata) :
                            \E idx \in 0 .. MaxIndexed : metadata[j] = ChunkId(d, idx)}}

\* C29: in every state reached through uploads, an indexed document has chunk
\* records numbered 0..n-1 (n >= 1) whose ids are exactly its ids in the
\* id-mapping, no chunk id occurs twice in the id-mapping, and there are no
\* more chunk records than index vectors.
C29_IndexedDocumentsComplete ==
    /\ \A d \in DocIds :
          documents[d] = "indexed" =>
              /\ RowsOfDocument(d) # {}
              /\ {row.chunk_index : row \in RowsOfDocument(d)}
                     = 0 .. Cardinality(RowsOfDocument(d)) - 1
              /\ \A row \in RowsOfDocument(d) : row.chunk_id = ChunkId(d, row.chunk_index)
              /\ {row.chunk_id : row \in RowsOfDocument(d)} = MappedIdsOf(d)
    /\ \A i \in 1 .. Len(metadata), j \in 1 .. Len(metadata) :
          metadata[i] = metadata[j] => i = j
    /\ Cardinality(document_chunks) <= Len(index)

\* A document of two chunks is indexed next to a failed one whose vector is
\* in the index without a chunk record.
C29_Witness ==
    \E d \in DocIds : \E e \in DocIds :
        /\ documents[d] = "indexed" /\ Cardinality(RowsOfDocument(d)) = 2
        /\ documents[e] = "failed" /\ RowsOfDocument(e) = {} /\ MappedIdsOf(e) # {}

====
